---- MODULE Spec2Model ----
(***************************************************************************)
(* Govee Cloud polling client (custom_components/govee_cloud/api.py).      *)
(*                                                                         *)
(* The model follows one GoveeAPI instance at a time on one configuration  *)
(* directory: its in-memory token, the token cache file, the wall clock    *)
(* and the vendor's two endpoints.  get_devices() runs to completion on    *)
(* the executor before the next poll may begin, so it is one action; the   *)
(* vendor's answers, the expiry of an issued token and the faults of the   *)
(* cache file are the inputs.                                              *)
(***************************************************************************)
EXTENDS Integers, Sequences, FiniteSets, TLC

VARIABLES
    token,      \* self._token
    file,       \* content of <config_dir>/.govee_token.json
    writable,   \* whether open(self._token_file, "w") succeeds
    now,        \* time.time()
    nextId,     \* serial of the next token the login endpoint issues
    loginMode,  \* how the login endpoint currently answers
    saved,      \* token of the last _save_token() that wrote the file, if the file is untouched since
    stale,      \* consecutive poll cycles that only resent a rejected token
    last,       \* observation of the call that has just completed
    device,     \* the device record handed to extract_device_data()
    snapshot,   \* what extract_device_data(device) gave
    email,      \* self._email / self._password: the account of the instance
    owner       \* for each issued token, the account whose login it answered

vars == <<token, file, writable, now, nextId, loginMode, saved, stale, last,
          device, snapshot, email, owner>>

----------------------------------------------------------------------------
(* Bounds of the model *)

MaxNow == 3          \* the clock runs from 1 to MaxNow
MaxIssue == 2        \* tokens the login endpoint issues in one behaviour
MaxDevs == 2         \* length of a response's device array
MaxStale == 2        \* cap of the stale-cycle counter
MaxRaw == 26         \* raw temperatures run from -MaxRaw to MaxRaw (hundredths of a degree)
MaxHum == 3          \* raw humidities run from 0 to MaxHum (hundredths of a percent)

NoExp == 0           \* decoded.get("exp") is None (or 0): both are falsy

----------------------------------------------------------------------------
(* Tokens.  A token is the JWT string; the model keeps what the code can   *)
(* learn from it (the exp claim) and a serial that tells tokens apart.       *)

None == [id |-> 0, exp |-> NoExp]

Tok(i, e) == [id |-> i, exp |-> e]

ExpSet == {NoExp, 2, MaxNow + 1}

----------------------------------------------------------------------------
(* The token cache file *)

FileKinds == {"missing", "unreadable", "malformed", "notoken", "undecodable", "record"}

\* json.dump({"token": token}, f)
Record(tok) == [kind |-> "record", token |-> tok]

Broken(k) == [kind |-> k, token |-> None]

----------------------------------------------------------------------------
(* Token Store: _load_token, _save_token.  A result carries exc, the       *)
(* exception that leaves the function ("" when it returns normally).       *)

\* Faulty variant of LoadTokenBody: the exp claim is not compared with the clock.
LoadTokenBody_IgnoresExpiry(f, t) ==
    CASE f.kind = "unreadable"  -> [exc |-> "OSError", ret |-> None]
      [] f.kind = "malformed"   -> [exc |-> "JSONDecodeError", ret |-> None]
      [] f.kind = "notoken"     -> [exc |-> "", ret |-> None]
      [] f.kind = "undecodable" -> [exc |-> "DecodeError", ret |-> None]
      [] OTHER -> [exc |-> "", ret |-> f.token]

\* The statements inside the try block of _load_token.
LoadTokenBody(f, t) ==
    CASE f.kind = "unreadable"  -> [exc |-> "OSError", ret |-> None]
      [] f.kind = "malformed"   -> [exc |-> "JSONDecodeError", ret |-> None]
      [] f.kind = "notoken"     -> [exc |-> "", ret |-> None]
      [] f.kind = "undecodable" -> [exc |-> "DecodeError", ret |-> None]
      [] OTHER ->
            IF f.token.exp # NoExp /\ f.token.exp > t
            THEN [exc |-> "", ret |-> f.token]
            ELSE [exc |-> "", ret |-> None]

LoadToken(f, t) ==
    LET Except(b) == IF b.exc # "" THEN [exc |-> "", ret |-> None] ELSE b
    IN  IF f.kind = "missing"
        THEN [exc |-> "", ret |-> None]
        ELSE Except(LoadTokenBody(f, t))

\* Faulty variant of SaveTokenBody: an existing record is kept, the token is
\* written only when the file holds none.
SaveTokenBody_KeepsRecord(f, w, tok) ==
    IF tok = None      THEN [exc |-> "DecodeError", file |-> f, wrote |-> FALSE]
    ELSE IF ~w         THEN [exc |-> "OSError", file |-> f, wrote |-> FALSE]
    ELSE IF f.kind = "record" THEN [exc |-> "", file |-> f, wrote |-> FALSE]
    ELSE [exc |-> "", file |-> Record(tok), wrote |-> TRUE]

\* The statements inside the try block of _save_token.
SaveTokenBody(f, w, tok) ==
    IF tok = None      THEN [exc |-> "DecodeError", file |-> f, wrote |-> FALSE]
    ELSE IF ~w         THEN [exc |-> "OSError", file |-> f, wrote |-> FALSE]
    ELSE [exc |-> "", file |-> Record(tok), wrote |-> TRUE]

\* Faulty variant of SaveToken: no except clause, the failure leaves the function.
SaveToken_Propagates(f, w, tok) == SaveTokenBody(f, w, tok)

SaveToken(f, w, tok) ==
    LET Except(b) == IF b.exc # "" THEN [exc |-> "", file |-> f, wrote |-> FALSE] ELSE b
    IN  Except(SaveTokenBody(f, w, tok))

----------------------------------------------------------------------------
(* Accounts: the credentials a GoveeAPI instance is built with *)

Accounts == {1, 2}
NoAccount == 0       \* the token has not been issued

----------------------------------------------------------------------------
(* Authenticator: _login, _ensure_authenticated *)

LoginModes == {"ok", "http_error", "no_token_field", "null_token"}

\* Faulty variant of Login: a response without client.token is read with
\* .get() and the function returns None instead of raising.
Login_TokenOptional(mode, newTok, f, w) ==
    LET Saved(tok, s) ==
            [exc |-> "", ret |-> tok, file |-> s.file, wrote |-> s.wrote,
             ev |-> IF tok = None THEN <<"login_null">> ELSE <<"login">>]
    IN  CASE mode = "http_error" ->
                [exc |-> "LoginHTTPError", ret |-> None, file |-> f, wrote |-> FALSE,
                 ev |-> <<"login_fail">>]
          [] mode = "no_token_field" ->
                [exc |-> "", ret |-> None, file |-> f, wrote |-> FALSE, ev |-> <<"login_fail">>]
          [] mode = "null_token" -> Saved(None, SaveToken(f, w, None))
          [] OTHER -> Saved(newTok, SaveToken(f, w, newTok))

\* mode is the vendor's answer to the POST, newTok the token it issues.
Login(mode, newTok, f, w) ==
    LET Saved(tok, s) ==
            IF s.exc # ""
            THEN [exc |-> "CacheFailure", ret |-> None, file |-> s.file, wrote |-> FALSE,
                  ev |-> <<"login_fail">>]
            ELSE [exc |-> "", ret |-> tok, file |-> s.file, wrote |-> s.wrote,
                  ev |-> IF tok = None THEN <<"login_null">> ELSE <<"login">>]
    IN  CASE mode = "http_error" ->
                [exc |-> "LoginHTTPError", ret |-> None, file |-> f, wrote |-> FALSE,
                 ev |-> <<"login_fail">>]
          [] mode = "no_token_field" ->
                [exc |-> "LoginKeyError", ret |-> None, file |-> f, wrote |-> FALSE,
                 ev |-> <<"login_fail">>]
          [] mode = "null_token" -> Saved(None, SaveToken(f, w, None))
          [] OTHER -> Saved(newTok, SaveToken(f, w, newTok))

\* Faulty variant of EnsureAuthenticated: the in-memory token is not looked
\* at, the cache file is read on every call.
EnsureAuthenticated_AlwaysLoads(tok, f, w, t, mode, newTok) ==
    LET LoggedIn(lg) ==
            [exc |-> lg.exc, token |-> IF lg.exc # "" THEN None ELSE lg.ret,
             file |-> lg.file, ev |-> <<"load">> \o lg.ev, loaded |-> None, wrote |-> lg.wrote]
        Loaded(ld) ==
            IF ld.ret # None
            THEN [exc |-> "", token |-> ld.ret, file |-> f, ev |-> <<"load">>,
                  loaded |-> ld.ret, wrote |-> FALSE]
            ELSE LoggedIn(Login(mode, newTok, f, w))
    IN  Loaded(LoadToken(f, t))

\* Result: exc, the token now in self._token, the file, the events in order,
\* what _load_token returned (loaded, when "load" is among the events) and
\* whether _save_token wrote the file.
EnsureAuthenticated(tok, f, w, t, mode, newTok) ==
    LET ev1 == IF tok = None THEN <<"load">> ELSE <<>>
        \* self._token = self._login()
        LoggedIn(lg) ==
            [exc |-> lg.exc, token |-> IF lg.exc # "" THEN None ELSE lg.ret,
             file |-> lg.file, ev |-> ev1 \o lg.ev, loaded |-> None, wrote |-> lg.wrote]
        \* self._token = self._load_token()
        Loaded(ld) ==
            IF ld.exc # ""
            THEN [exc |-> "CacheFailure", token |-> tok, file |-> f, ev |-> ev1,
                  loaded |-> None, wrote |-> FALSE]
            ELSE IF ld.ret # None
            THEN [exc |-> "", token |-> ld.ret, file |-> f, ev |-> ev1,
                  loaded |-> IF tok = None THEN ld.ret ELSE None, wrote |-> FALSE]
            ELSE LoggedIn(Login(mode, newTok, f, w))
    IN  IF tok = None
        THEN Loaded(LoadToken(f, t))
        ELSE Loaded([exc |-> "", ret |-> tok])

----------------------------------------------------------------------------
(* Vendor device-list endpoint *)

THERMOMETER_SKU == "H5111"

\* d.get("sku") of the device records the vendor may list; "none": no sku key
SkuOf(i) == CASE i = 1 -> "H5111" [] i = 2 -> "X9999" [] i = 3 -> "H5111" [] OTHER -> "none"

Devices == {[device |-> i, sku |-> SkuOf(i)] : i \in {1, 2, 3, 4}}

DeviceArrays == UNION {[1..n -> Devices] : n \in 0..MaxDevs}

\* http: whether raise_for_status() passes; status: data.get("status"), 0 when
\* the body has none; hasDevices: whether data.data.devices exists.
Response(h, st, hd, ds) == [http |-> h, status |-> st, hasDevices |-> hd, devices |-> ds]

HttpError == Response(FALSE, 0, FALSE, <<>>)
Unauthorized == Response(TRUE, 401, FALSE, <<>>)

Responses ==
    {HttpError, Unauthorized, Response(TRUE, 0, FALSE, <<>>)}
    \cup {Response(TRUE, 200, TRUE, ds) : ds \in DeviceArrays}

\* Faulty variant of IsUnauthorized: any status in the body triggers the retry.
IsUnauthorized_AnyStatus(data) == data.status # 0

\* if (status := data.get("status")) and status == 401
IsUnauthorized(data) == data.status # 0 /\ data.status = 401

\* The answers of the poll cycles: a failure, a rejection, a body without a
\* device array, and one device list (a thermometer and another device)
PollResponses ==
    {HttpError, Unauthorized, Response(TRUE, 0, FALSE, <<>>),
     Response(TRUE, 200, TRUE, <<[device |-> 1, sku |-> SkuOf(1)], [device |-> 2, sku |-> SkuOf(2)]>>)}

\* Faulty variant of RaisesForStatus: the transport status is not checked.
RaisesForStatus_Never(r) == FALSE

\* response.raise_for_status(): a transport error or a non-2xx status raises
RaisesForStatus(r) == ~r.http

\* data.get("data", {}).get("devices", [])
DevicesOf(data) == IF data.hasDevices THEN data.devices ELSE <<>>

IsThermometer(d) == d.sku = THERMOMETER_SKU

\* Faulty variant of Thermometers: the list is returned unfiltered.
Thermometers_Unfiltered(devices) == devices

\* [d for d in devices if d.get("sku") == THERMOMETER_SKU]
Thermometers(devices) == SelectSeq(devices, IsThermometer)

----------------------------------------------------------------------------
(* Device Fetcher: get_devices *)

Count(seq, x) == Cardinality({i \in DOMAIN seq : seq[i] = x})

\* One entry of the record of _load_token calls: had is the token the last
\* successful _save_token left in the untouched file (None when there is
\* none), got is what _load_token returned.
LoadObs(ea, had) == IF Count(ea.ev, "load") > 0 THEN <<[had |-> had, got |-> ea.loaded]>> ELSE <<>>

\* Whether the vendor was asked to log in (whatever it answered)
LoginAttempts(ev) == Count(ev, "login") + Count(ev, "login_null") + Count(ev, "login_fail")

\* The call as a function of its inputs: the state it starts in (tok, f, w, t,
\* sv), the login endpoint's answers to the first and to the second login of
\* the call (modeA, modeB) with the tokens it issues (tokA, tokB), and the
\* vendor's answers to the first list-devices request (r1) and to the retry (r2).
GetDevicesCall(tok, f, w, t, sv, modeA, modeB, tokA, tokB, r1, r2) ==
    LET Out(outcome, ea, fileAtAuth, svn, ev, reqs, resps, loads, data) ==
            [outcome |-> outcome, token |-> ea.token, file |-> ea.file, saved |-> svn,
             fileAtAuth |-> fileAtAuth, ev |-> ev, reqs |-> reqs, resps |-> resps,
             http |-> IF Len(resps) = 2 THEN <<r1.http, r2.http>>
                      ELSE IF Len(resps) = 1 THEN <<r1.http>> ELSE <<>>,
             loads |-> loads, data |-> data, result |-> Thermometers(data)]
        SavedAfter(ea, svn) == IF ea.wrote THEN ea.token ELSE svn
        \* after self._token = None; self._ensure_authenticated()
        Retry(ea1, ea2) ==
            IF ea2.exc # ""
            THEN Out(ea2.exc, ea2, ea1.file, SavedAfter(ea2, SavedAfter(ea1, sv)),
                     ea1.ev \o <<"req">> \o ea2.ev, <<ea1.token>>, <<r1.status>>,
                     LoadObs(ea1, sv) \o LoadObs(ea2, SavedAfter(ea1, sv)), <<>>)
            ELSE IF RaisesForStatus(r2)
            THEN Out("HTTPError", ea2, ea1.file, SavedAfter(ea2, SavedAfter(ea1, sv)),
                     ea1.ev \o <<"req">> \o ea2.ev \o <<"req">>, <<ea1.token, ea2.token>>,
                     <<r1.status, r2.status>>,
                     LoadObs(ea1, sv) \o LoadObs(ea2, SavedAfter(ea1, sv)), <<>>)
            ELSE Out("returned", ea2, ea1.file, SavedAfter(ea2, SavedAfter(ea1, sv)),
                     ea1.ev \o <<"req">> \o ea2.ev \o <<"req">>, <<ea1.token, ea2.token>>,
                     <<r1.status, r2.status>>,
                     LoadObs(ea1, sv) \o LoadObs(ea2, SavedAfter(ea1, sv)), DevicesOf(r2))
        \* after the first self._ensure_authenticated()
        First(ea1) ==
            IF ea1.exc # ""
            THEN Out(ea1.exc, ea1, f, SavedAfter(ea1, sv), ea1.ev, <<>>, <<>>,
                     LoadObs(ea1, sv), <<>>)
            ELSE IF RaisesForStatus(r1)
            THEN Out("HTTPError", ea1, f, SavedAfter(ea1, sv), ea1.ev \o <<"req">>,
                     <<ea1.token>>, <<r1.status>>, LoadObs(ea1, sv), <<>>)
            ELSE IF ~IsUnauthorized(r1)
            THEN Out("returned", ea1, f, SavedAfter(ea1, sv), ea1.ev \o <<"req">>,
                     <<ea1.token>>, <<r1.status>>, LoadObs(ea1, sv), DevicesOf(r1))
            ELSE Retry(ea1, EnsureAuthenticated(None, ea1.file, w, t,
                                IF LoginAttempts(ea1.ev) > 0 THEN modeB ELSE modeA,
                                IF Count(ea1.ev, "login") > 0 THEN tokB ELSE tokA))
    IN  First(EnsureAuthenticated(tok, f, w, t, modeA, tokA))

\* A direct call of _ensure_authenticated(), observed like a get_devices() call
EnsureCall(tok, f, w, t, sv, mode, newTok) ==
    LET Out(ea) ==
            [outcome |-> IF ea.exc = "" THEN "returned" ELSE ea.exc, token |-> ea.token,
             file |-> ea.file, saved |-> IF ea.wrote THEN ea.token ELSE sv, fileAtAuth |-> f,
             ev |-> ea.ev, reqs |-> <<>>, resps |-> <<>>, http |-> <<>>,
             loads |-> LoadObs(ea, sv),
             data |-> <<>>, result |-> <<>>]
    IN  Out(EnsureAuthenticated(tok, f, w, t, mode, newTok))

\* A poll cycle that only resent a token the vendor rejects although the login
\* endpoint works: every answer was 401 and no login was made.
StaleCycle(c, mode) ==
    /\ mode = "ok"
    /\ c.resps # <<>>
    /\ \A i \in DOMAIN c.resps : c.resps[i] = 401
    /\ Count(c.ev, "login") = 0

\* prev: for a direct _ensure_authenticated() call, the direct call before it
\* when nothing happened in between
Idle == [op |-> "none", before |-> None, fileBefore |-> Broken("missing"),
         fileAtAuth |-> Broken("missing"),
         outcome |-> "", ev |-> <<>>, reqs |-> <<>>, resps |-> <<>>, http |-> <<>>,
         loads |-> <<>>,
         data |-> <<>>, result |-> <<>>, prev |-> [op |-> "none", logins |-> 0]]

Observe(op, c) ==
    [op |-> op, before |-> token, fileBefore |-> file, fileAtAuth |-> c.fileAtAuth,
     outcome |-> c.outcome, ev |-> c.ev,
     reqs |-> c.reqs, resps |-> c.resps, http |-> c.http, loads |-> c.loads, data |-> c.data,
     result |-> c.result,
     prev |-> IF op = "ensure" /\ last.op = "ensure"
              THEN [op |-> "ensure", logins |-> LoginAttempts(last.ev)]
              ELSE [op |-> "none", logins |-> 0]]

----------------------------------------------------------------------------
(* Normalizer: govee_temp_value, extract_device_data.                       *)
(* A JSON value is its type and, for a number, its value; a float is kept   *)
(* as its count of hundredths.                                              *)

JMissing == [t |-> "missing", v |-> 0]       \* the key is not in the object
JNull == [t |-> "null", v |-> 0]             \* None
JStr == [t |-> "str", v |-> 0]               \* a non-empty string
JInt(n) == [t |-> "int", v |-> n]
JBool(b) == [t |-> "bool", v |-> IF b THEN 1 ELSE 0]
Float(h) == [t |-> "float", v |-> h]

\* d.get(key) and d.get(key, default)
Get(x) == IF x = JMissing THEN JNull ELSE x
GetDefault(x, default) == IF x = JMissing THEN default ELSE x

\* Python truth value of a JSON value
Truthy(x) == x.t \in {"str"} \/ (x.t \in {"int", "bool", "float"} /\ x.v # 0)

\* The |T| < 100 with T % 10 = 5 for which the double nearest to T / 100.0
\* lies above T / 100, so that round(_, 1) goes away from zero; 25 and 75 are
\* exact and go to the even tenth, the others lie below.
TiesRoundedUp == {5, 45, 55, 65, 75}

Abs(n) == IF n < 0 THEN 0 - n ELSE n

\* Faulty variant of govee_temp_value: the second decimal is cut off.
govee_temp_value_Truncates(api_value) ==
    LET mag == (Abs(api_value) \div 10) * 10
    IN  Float(IF api_value < 0 THEN 0 - mag ELSE mag)

\* round(api_value / 100.0, 1), in hundredths
govee_temp_value(api_value) ==
    LET a == Abs(api_value)
        q == a \div 10
        m == a % 10
        tenths == IF m < 5 THEN q
                  ELSE IF m > 5 THEN q + 1
                  ELSE IF (a % 100) \in {25, 75} THEN (IF q % 2 = 0 THEN q ELSE q + 1)
                  ELSE IF a \in TiesRoundedUp THEN q + 1 ELSE q
    IN  Float(IF api_value < 0 THEN 0 - 10 * tenths ELSE 10 * tenths)

\* A sub-document is a string field of deviceExt that holds JSON text.
DocKinds == {"missing", "unparseable", "notobject", "object"}

EmptyData == [tem |-> JMissing, hum |-> JMissing, online |-> JMissing, lastTime |-> JMissing]
EmptySettings == [battery |-> JMissing]

\* json.loads(device_ext.get(key, "{}")) followed by the first .get() on it
Loads(doc, empty) ==
    CASE doc.kind = "missing" -> [exc |-> "", obj |-> empty]
      [] doc.kind = "unparseable" -> [exc |-> "JSONDecodeError", obj |-> empty]
      [] doc.kind = "notobject" -> [exc |-> "AttributeError", obj |-> empty]
      [] OTHER -> [exc |-> "", obj |-> doc.obj]

\* Faulty variant of Humidity: the raw value is tested with "is not None".
Humidity_ZeroIsReading(last_device_data) ==
    LET hum == Get(last_device_data.hum)
    IN  IF hum # JNull
        THEN (IF hum.t = "int" THEN [exc |-> "", ret |-> Float(hum.v)]
              ELSE [exc |-> "TypeError", ret |-> JNull])
        ELSE [exc |-> "", ret |-> JNull]

\* last_device_data.get("hum", 0) / 100.0 if last_device_data.get("hum") else None
Humidity(last_device_data) ==
    LET hum == Get(last_device_data.hum)
    IN  IF Truthy(hum)
        THEN (IF hum.t = "int" THEN [exc |-> "", ret |-> Float(hum.v)]
              ELSE [exc |-> "TypeError", ret |-> JNull])
        ELSE [exc |-> "", ret |-> JNull]

\* self.govee_temp_value(temp_raw) if temp_raw is not None else None
Temperature(last_device_data) ==
    LET temp_raw == Get(last_device_data.tem)
    IN  IF temp_raw # JNull
        THEN (IF temp_raw.t = "int" THEN [exc |-> "", ret |-> govee_temp_value(temp_raw.v)]
              ELSE [exc |-> "TypeError", ret |-> JNull])
        ELSE [exc |-> "", ret |-> JNull]

Snapshot(exc, temperature, humidity, battery, online, last_update) ==
    [exc |-> exc, temperature |-> temperature, humidity |-> humidity, battery |-> battery,
     online |-> online, last_update |-> last_update]

Raised(exc) == Snapshot(exc, JNull, JNull, JNull, JNull, JNull)

\* No extraction has run
Pending == Raised("pending")

\* dev: ext says what dev.get("deviceExt", {}) finds, lastDeviceData and
\* deviceSettings are the two sub-documents.  The statements run in the
\* order of the source and the first exception ends the call.
extract_device_data(dev) ==
    LET lastDoc == IF dev.ext = "missing" THEN [kind |-> "missing", obj |-> EmptyData]
                   ELSE dev.lastDeviceData
        setDoc == IF dev.ext = "missing" THEN [kind |-> "missing", obj |-> EmptySettings]
                  ELSE dev.deviceSettings
        ld == Loads(lastDoc, EmptyData)
        tm == Temperature(ld.obj)
        hm == Humidity(ld.obj)
        st == Loads(setDoc, EmptySettings)
    IN  IF dev.ext = "notobject" THEN Raised("AttributeError")
        ELSE IF ld.exc # "" THEN Raised(ld.exc)
        ELSE IF tm.exc # "" THEN Raised(tm.exc)
        ELSE IF hm.exc # "" THEN Raised(hm.exc)
        ELSE IF st.exc # "" THEN Raised(st.exc)
        ELSE Snapshot("", tm.ret, hm.ret, Get(st.obj.battery),
                      GetDefault(ld.obj.online, JBool(FALSE)), Get(ld.obj.lastTime))

\* The device records the normalizer is given
RawTemperatures == {JMissing, JNull, JStr} \cup {JInt(n) : n \in (0 - MaxRaw)..MaxRaw}
RawHumidities == {JMissing, JNull, JStr} \cup {JInt(n) : n \in 0..MaxHum}

DataDocs ==
    {[kind |-> k, obj |-> EmptyData] : k \in DocKinds \ {"object"}}
    \cup {[kind |-> "object", obj |-> [tem |-> t, hum |-> h, online |-> o, lastTime |-> JInt(1)]] :
            t \in RawTemperatures, h \in RawHumidities, o \in {JMissing, JBool(TRUE)}}

SettingsDocs ==
    {[kind |-> k, obj |-> EmptySettings] : k \in DocKinds \ {"object"}}
    \cup {[kind |-> "object", obj |-> [battery |-> b]] : b \in {JMissing, JInt(80)}}

NoDevice == [ext |-> "missing", lastDeviceData |-> [kind |-> "missing", obj |-> EmptyData],
             deviceSettings |-> [kind |-> "missing", obj |-> EmptySettings]]

DeviceRecords ==
    {NoDevice, [NoDevice EXCEPT !.ext = "notobject"]}
    \cup {[ext |-> "object", lastDeviceData |-> l, deviceSettings |-> s] :
            l \in DataDocs, s \in SettingsDocs}

----------------------------------------------------------------------------
(* The state machine *)

InitClient ==
    /\ token = None
    /\ file = Broken("missing")
    /\ writable = TRUE
    /\ now = 1
    /\ nextId = 1
    /\ loginMode = "ok"
    /\ saved = None
    /\ stale = 0
    /\ last = Idle
    /\ email = 1
    /\ owner = [i \in 1..MaxIssue |-> NoAccount]

Init ==
    /\ InitClient
    /\ device = NoDevice
    /\ snapshot = Pending

\* The login endpoint answers the account named in the POST: the n tokens
\* issued from serial first on belong to account acct.
Issued(own, first, n, acct) ==
    [i \in DOMAIN own |-> IF i >= first /\ i < first + n THEN acct ELSE own[i]]

\* One get_devices() call whose list-devices answers come from RS.  The first
\* login of the call is answered as loginMode says, a second one in any way.
\* The inputs the call does not consume (a token never issued, an answer to a
\* request never sent) are fixed instead of enumerated.
GetDevicesWith(RS) ==
    \E p1 \in {EnsureAuthenticated(token, file, writable, now, loginMode, Tok(nextId, NoExp))} :
    \E r1 \in (IF p1.exc = "" THEN RS ELSE {HttpError}) :
    \E c0 \in {GetDevicesCall(token, file, writable, now, saved, loginMode, "ok",
                               Tok(nextId, NoExp), Tok(nextId + 1, NoExp), r1, HttpError)} :
    \E eA \in (IF Count(c0.ev, "login") >= 1 THEN ExpSet ELSE {NoExp}) :
    \E r2 \in (IF Len(c0.resps) = 2 THEN RS ELSE {HttpError}) :
    \E c1 \in {GetDevicesCall(token, file, writable, now, saved, loginMode, "ok",
                               Tok(nextId, eA), Tok(nextId + 1, NoExp), r1, r2)} :
    \E mB \in (IF LoginAttempts(c1.ev) >= 2 THEN LoginModes ELSE {"ok"}) :
    \E eB \in (IF Count(c1.ev, "login") >= 2 /\ mB = "ok" THEN ExpSet ELSE {NoExp}) :
    \E c \in {GetDevicesCall(token, file, writable, now, saved, loginMode, mB,
                              Tok(nextId, eA), Tok(nextId + 1, eB), r1, r2)} :
        /\ nextId + Count(c.ev, "login") <= MaxIssue + 1
        /\ token' = c.token
        /\ file' = c.file
        /\ saved' = c.saved
        /\ nextId' = nextId + Count(c.ev, "login")
        /\ stale' = IF StaleCycle(c, loginMode)
                     THEN (IF stale < MaxStale THEN stale + 1 ELSE stale)
                     ELSE 0
        /\ last' = Observe("get_devices", c)
        /\ owner' = Issued(owner, nextId, Count(c.ev, "login"), email)
        /\ UNCHANGED <<writable, now, loginMode, device, snapshot, email>>

\* async_update_data / validate_input: api_client.get_devices() on the executor
GetDevices == GetDevicesWith(PollResponses)

\* get_devices() with every answer of the device-list endpoint
GetDevicesAny == GetDevicesWith(Responses)

\* self._ensure_authenticated() called on its own
EnsureAuth ==
    \E p \in {EnsureAuthenticated(token, file, writable, now, loginMode, Tok(nextId, NoExp))} :
    \E eA \in (IF Count(p.ev, "login") >= 1 THEN ExpSet ELSE {NoExp}) :
    \E c \in {EnsureCall(token, file, writable, now, saved, loginMode, Tok(nextId, eA))} :
        /\ nextId + Count(c.ev, "login") <= MaxIssue + 1
        /\ token' = c.token
        /\ file' = c.file
        /\ saved' = c.saved
        /\ nextId' = nextId + Count(c.ev, "login")
        /\ last' = Observe("ensure", c)
        /\ owner' = Issued(owner, nextId, Count(c.ev, "login"), email)
        /\ UNCHANGED <<writable, now, loginMode, stale, device, snapshot, email>>

\* GoveeAPI(hass, email, password): a new instance on the same config directory
Restart ==
    /\ token' = None
    /\ stale' = 0
    /\ last' = Idle
    /\ UNCHANGED <<file, writable, now, nextId, loginMode, saved, device, snapshot, email, owner>>

\* time.time() advances
Tick ==
    /\ now < MaxNow
    /\ now' = now + 1
    /\ last' = Idle
    /\ UNCHANGED <<token, file, writable, nextId, loginMode, saved, stale, device, snapshot, email, owner>>

\* The cache file is deleted, damaged or replaced behind the client's back
FileFault ==
    \E k \in FileKinds \ {"record"} :
        /\ file # Broken(k)
        /\ file' = Broken(k)
        /\ saved' = None
        /\ last' = Idle
        /\ UNCHANGED <<token, writable, now, nextId, loginMode, stale, device, snapshot, email, owner>>

\* The config directory or the file becomes (un)writable
SetWritable ==
    /\ writable' = ~writable
    /\ last' = Idle
    /\ UNCHANGED <<token, file, now, nextId, loginMode, saved, stale, device, snapshot, email, owner>>

\* The login endpoint changes how it answers
VendorLogin ==
    \E m \in LoginModes :
        /\ m # loginMode
        /\ loginMode' = m
        /\ last' = Idle
        /\ UNCHANGED <<token, file, writable, now, nextId, saved, stale, device, snapshot, email, owner>>

Next ==
    \/ GetDevices
    \/ EnsureAuth
    \/ Restart
    \/ Tick
    \/ FileFault
    \/ SetWritable
    \/ VendorLogin

Spec == Init /\ [][Next]_vars

\* The polling client alone, with every answer of the device-list endpoint
FetchNext ==
    \/ GetDevicesAny
    \/ Restart

FetchSpec == Init /\ [][FetchNext]_vars

\* sensor.py: api_client.extract_device_data(device) on a record of the
\* coordinator's data
ExtractDeviceData ==
    /\ snapshot = Pending
    /\ snapshot' = extract_device_data(device)
    /\ UNCHANGED <<token, file, writable, now, nextId, loginMode, saved, stale, last, device,
                 email, owner>>

\* The coordinator's next refresh brings another record
Refresh ==
    /\ snapshot # Pending
    /\ \E d \in DeviceRecords : device' = d
    /\ snapshot' = Pending
    /\ UNCHANGED <<token, file, writable, now, nextId, loginMode, saved, stale, last,
                   email, owner>>

ExtractInit ==
    /\ InitClient
    /\ device \in DeviceRecords
    /\ snapshot = Pending

ExtractNext ==
    \/ ExtractDeviceData
    \/ Refresh

\* GoveeAPI(hass, email, password) in async_setup_entry or validate_input:
\* an instance with any credentials on the same config directory
NewInstance ==
    /\ \E a \in Accounts : email' = a
    /\ token' = None
    /\ stale' = 0
    /\ last' = Idle
    /\ UNCHANGED <<file, writable, now, nextId, loginMode, saved, device, snapshot, owner>>

AccountNext ==
    \/ GetDevices
    \/ NewInstance
    \/ VendorLogin
    \/ Tick

\* Instances of several accounts, one after another, on one config directory
AccountSpec == Init /\ [][AccountNext]_vars

\* The normalizer alone, on every device record
ExtractSpec == ExtractInit /\ [][ExtractNext]_vars

----------------------------------------------------------------------------
(* Reading the observation of the call that has just completed *)

Polled == last.op = "get_devices"

Called == last.op \in {"get_devices", "ensure"}

\* Position of the first list-devices request among the events (0: none sent)
FirstReq(ev) == IF Count(ev, "req") = 0 THEN 0
                ELSE CHOOSE i \in DOMAIN ev : ev[i] = "req" /\ \A j \in 1..(i - 1) : ev[j] # "req"

\* The events after the first list-devices request
AfterFirstReq(ev) == IF FirstReq(ev) = 0 THEN <<>> ELSE SubSeq(ev, FirstReq(ev) + 1, Len(ev))

FirstRejected == Polled /\ last.resps # <<>> /\ last.resps[1] = 401

LastRejected == Polled /\ last.resps # <<>> /\ last.resps[Len(last.resps)] = 401

LoginFailures == {"LoginHTTPError", "LoginKeyError"}

----------------------------------------------------------------------------
(* C1: when the first list-devices answer of a get_devices() call is 401,   *)
(* the client logs in again instead of taking the token from the cache, and *)
(* the retry carries the token that login issued, never the rejected one.   *)
C1_RetryCarriesFreshToken ==
    FirstRejected =>
        /\ LoginAttempts(AfterFirstReq(last.ev)) = 1
        /\ (Len(last.reqs) = 2 /\ Count(last.ev, "login_null") = 0) =>
                /\ last.reqs[2] # last.reqs[1]
                /\ Count(AfterFirstReq(last.ev), "login") = 1
                /\ last.reqs[2].id = nextId - 1

(* C2: a get_devices() call whose retried answer is again 401 fails with an *)
(* authentication failure; it does not return a device list.                *)
C2_SecondRejectionFails ==
    (Polled /\ Len(last.resps) = 2 /\ last.resps[2] = 401) =>
        last.outcome # "returned"

(* C3 as stated: one request when the first answer is not 401, two when it  *)
(* is, never a third, and at most one login after a rejection.              *)
C3_ExactlyTwoWhenRejected ==
    (Polled /\ last.resps # <<>>) =>
        /\ last.resps[1] # 401 => Len(last.reqs) = 1
        /\ last.resps[1] = 401 => Len(last.reqs) = 2
        /\ Len(last.reqs) <= 2
        /\ LoginAttempts(AfterFirstReq(last.ev)) <= 1

(* C3 as amended: one request when the first answer is not 401; when it is, *)
(* two requests if the re-authentication completes and one if the login it  *)
(* attempts fails; never a third; at most one login after a rejection.      *)
C3_RetryBound ==
    (Polled /\ last.resps # <<>>) =>
        /\ Len(last.reqs) = Len(last.resps)
        /\ Count(last.ev, "req") = Len(last.reqs)
        /\ last.resps[1] # 401 => Len(last.reqs) = 1
        /\ last.resps[1] = 401 =>
                Len(last.reqs) = IF last.outcome \in LoginFailures THEN 1 ELSE 2
        /\ Len(last.reqs) <= 2
        /\ LoginAttempts(AfterFirstReq(last.ev)) <= 1

C3_Witness ==
    /\ FirstRejected
    /\ Len(last.reqs) = 2
    /\ Count(AfterFirstReq(last.ev), "login") = 1

(* C4: while the login endpoint works, the client does not go on resending  *)
(* a token the vendor rejects poll cycle after poll cycle: there are never  *)
(* two consecutive cycles in which every answer was 401 and no login made.  *)
C4_NoRepeatedResend == stale <= 1

(* C5: a call that starts with a token in memory and sees no 401 performs   *)
(* no login and no token-file read and leaves the token unchanged; of two   *)
(* consecutive _ensure_authenticated() calls holding a token after the      *)
(* first, the second performs no login, so the two perform at most one.     *)
C5_HeldTokenIsReused ==
    /\ (Called /\ last.before # None /\ \A i \in DOMAIN last.resps : last.resps[i] # 401) =>
            /\ LoginAttempts(last.ev) = 0
            /\ Count(last.ev, "load") = 0
            /\ token = last.before
            /\ \A i \in DOMAIN last.reqs : last.reqs[i] = last.before
    /\ (last.op = "ensure" /\ last.prev.op = "ensure" /\ last.before # None) =>
            /\ LoginAttempts(last.ev) = 0
            /\ last.prev.logins + LoginAttempts(last.ev) <= 1

C5_Witness ==
    /\ last.op = "ensure"
    /\ last.prev.op = "ensure"
    /\ last.prev.logins = 1
    /\ last.before # None
    /\ token = last.before

(* C6: a _load_token() that reads the file a successful _save_token(tok)    *)
(* left returns tok when tok's expiry is in the future and absent when it   *)
(* is in the past, however many saves and loads came before; a client that  *)
(* starts without a token and finds an unexpired cached one sends its first *)
(* list-devices request with it, without a login.                           *)
C6_SaveLoadRoundTrip ==
    Called =>
        /\ \A i \in DOMAIN last.loads :
              LET l == last.loads[i]
              IN  (l.had # None /\ l.had.exp # NoExp) =>
                      /\ l.had.exp > now => l.got = l.had
                      /\ l.had.exp < now => l.got = None
        /\ (Polled /\ last.before = None /\ last.loads # <<>>
              /\ last.loads[1].had # None /\ last.loads[1].had.exp > now) =>
                  /\ Len(last.ev) >= 2
                  /\ last.ev[1] = "load"
                  /\ last.ev[2] = "req"
                  /\ last.reqs[1] = last.loads[1].had

C6_Witness ==
    /\ Polled
    /\ last.before = None
    /\ last.loads # <<>>
    /\ last.loads[1].had # None
    /\ last.loads[1].got = last.loads[1].had
    /\ LoginAttempts(last.ev) = 0
    /\ last.outcome = "returned"

(* C7: whatever the state of the token file, no call ends in a cache        *)
(* failure: _load_token() on a file that is missing, unreadable, malformed  *)
(* or holds no decodable token returns absent, and after a login the vendor *)
(* accepted the token is in memory and the next step is the list-devices    *)
(* request carrying it, also when the file cannot be written.               *)
C7_CacheFailuresAbsorbed ==
    Called =>
        /\ last.outcome \in {"returned", "HTTPError"} \cup LoginFailures
        /\ (last.ev # <<>> /\ last.ev[1] = "load" /\ last.fileBefore.kind # "record") =>
                last.loads[1].got = None
        /\ (Polled /\ FirstReq(last.ev) > 1 /\ last.ev[FirstReq(last.ev) - 1] = "login") =>
                /\ last.reqs[1] # None
                /\ last.reqs[1].id = nextId - Count(last.ev, "login")
        /\ (Polled /\ last.ev # <<>>) => last.ev[Len(last.ev)] # "login"
        /\ (last.op = "ensure" /\ Count(last.ev, "login") = 1) =>
                (token # None /\ token.id = nextId - 1 /\ last.outcome = "returned")

C7_Witness ==
    /\ Polled
    /\ last.fileBefore.kind \in {"unreadable", "malformed", "undecodable"}
    /\ ~writable
    /\ last.ev = <<"load", "login", "req">>
    /\ token # None
    /\ file = last.fileBefore
    /\ last.outcome = "returned"

(* C8: when a get_devices() call ends after an unauthorized answer, the     *)
(* client no longer holds the token that answer rejected.                   *)
C8_RejectedTokenDropped ==
    LastRejected => (token = None \/ token # last.reqs[Len(last.reqs)])

(* C9: get_devices() returns exactly the records of the last answer's       *)
(* device array whose sku is "H5111", in their order; an answer without a   *)
(* device array yields the empty list.                                      *)
C9_ReturnsThermometersInOrder ==
    (Polled /\ last.outcome = "returned") =>
        LET keep == {i \in DOMAIN last.data : last.data[i].sku = "H5111"}
        IN  /\ Len(last.result) = Cardinality(keep)
            /\ \A k \in DOMAIN last.result :
                  \E i \in keep :
                      /\ last.result[k] = last.data[i]
                      /\ Cardinality({j \in keep : j <= i}) = k

C9_Witness ==
    /\ Polled
    /\ last.outcome = "returned"
    /\ Len(last.data) = 2
    /\ last.data[1].sku = "X9999"
    /\ last.result = <<last.data[2]>>

(* C10: a login that fails (error status, or no client.token field) fails   *)
(* the call, leaves the in-memory token absent and the token file as it     *)
(* was, and is the last thing the call does: no request follows it.         *)
C10_FailedLoginFailsCall ==
    (Called /\ Count(last.ev, "login_fail") > 0) =>
        /\ last.outcome \in LoginFailures
        /\ token = None
        /\ file = last.fileAtAuth
        /\ Count(last.ev, "login_fail") = 1
        /\ last.ev[Len(last.ev)] = "login_fail"

C10_Witness ==
    /\ Polled
    /\ last.resps = <<401>>
    /\ last.fileBefore.kind = "record"
    /\ last.outcome \in LoginFailures
    /\ token = None

(* C11: a transport error or non-2xx status on a list-devices request fails *)
(* get_devices() at once: no login, no cache read and no request follow it; *)
(* on the first attempt the token stays the one that was sent and a client  *)
(* that held a token leaves token and file as they were.  A retry is sent   *)
(* only after a 401 in the body of a response that passed the status check. *)
C11_TransportErrorSurfaced ==
    Polled =>
        /\ \A i \in DOMAIN last.http :
              ~last.http[i] =>
                  /\ last.outcome = "HTTPError"
                  /\ i = Len(last.http)
                  /\ last.ev[Len(last.ev)] = "req"
                  /\ Count(last.ev, "req") = i
                  /\ token = last.reqs[i]
        /\ (last.http # <<>> /\ ~last.http[1]) =>
                /\ Len(last.reqs) = 1
                /\ LoginAttempts(AfterFirstReq(last.ev)) = 0
                /\ Count(AfterFirstReq(last.ev), "load") = 0
                /\ last.before # None => (token = last.before /\ file = last.fileBefore)
                /\ LoginAttempts(last.ev) = 0 => file = last.fileBefore
        /\ Len(last.reqs) = 2 => (last.http[1] /\ last.resps[1] = 401)

C11_Witness ==
    /\ Polled
    /\ last.before # None
    /\ last.http = <<FALSE>>
    /\ last.outcome = "HTTPError"
    /\ token = last.before

(* C12: _load_token() returns the stored token whenever the file holds a    *)
(* decodable token whose expiry is not in the past, a token without an exp  *)
(* claim included; it returns absent only when the record is missing or     *)
(* malformed or the expiry has passed.                                      *)
C12_LoadReturnsUsableToken ==
    Called =>
        \A i \in DOMAIN last.loads :
            LET l == last.loads[i]
            IN  /\ (l.had # None /\ (l.had.exp = NoExp \/ l.had.exp > now)) => l.got = l.had
                /\ (l.had # None /\ l.got = None) => (l.had.exp # NoExp /\ l.had.exp <= now)

(* C13: _ensure_authenticated() never completes normally with an absent     *)
(* token, a login response whose client.token is null included, so every    *)
(* list-devices request carries a bearer header built from a real token.    *)
C13_NeverAuthenticatedWithoutToken ==
    Called =>
        /\ (last.op = "ensure" /\ last.outcome = "returned") => token # None
        /\ \A i \in DOMAIN last.reqs : last.reqs[i] # None

----------------------------------------------------------------------------
(* Reading the extraction that has just completed *)

Extracted == snapshot # Pending

\* The object json.loads() made of lastDeviceData, when it made one
ParsedData == IF device.ext = "object" /\ device.lastDeviceData.kind = "object"
              THEN device.lastDeviceData.obj ELSE EmptyData

DataMalformed == device.ext = "object" /\ device.lastDeviceData.kind \in {"unparseable", "notobject"}

SettingsMalformed == device.ext = "object" /\ device.deviceSettings.kind \in {"unparseable", "notobject"}

(* C14: extract_device_data() never raises: a missing deviceExt, a missing, *)
(* unparseable or non-object sub-document or a field of unexpected type     *)
(* leaves the affected fields absent, and the two sub-documents are handled *)
(* independently of each other.                                             *)
C14_ExtractNeverRaises ==
    Extracted =>
        /\ snapshot.exc = ""
        /\ DataMalformed => (snapshot.temperature = JNull /\ snapshot.humidity = JNull)
        /\ (DataMalformed /\ device.deviceSettings.kind = "object") =>
                snapshot.battery = Get(device.deviceSettings.obj.battery)
        /\ SettingsMalformed => snapshot.battery = JNull
        /\ (SettingsMalformed /\ device.lastDeviceData.kind = "object"
              /\ ParsedData.tem.t = "int") => snapshot.temperature.t = "float"

(* C15: the humidity of a snapshot is absent when the raw humidity is 0 or  *)
(* absent, and is otherwise the raw integer divided by 100.                 *)
C15_HumidityNormalized ==
    (Extracted /\ snapshot.exc = "") =>
        /\ ParsedData.hum \in {JMissing, JNull, JInt(0)} => snapshot.humidity = JNull
        /\ (ParsedData.hum.t = "int" /\ ParsedData.hum.v # 0) =>
                snapshot.humidity = Float(ParsedData.hum.v)

C15_Witness ==
    /\ Extracted
    /\ snapshot.exc = ""
    /\ ParsedData.hum = JInt(0)
    /\ snapshot.humidity = JNull

(* C16: the temperature of a snapshot is absent exactly when the raw        *)
(* temperature is absent; otherwise it is the raw integer divided by 100    *)
(* and rounded to one decimal place, and a raw 0 gives the reading 0.0.     *)
C16_TemperatureRounded ==
    (Extracted /\ snapshot.exc = "") =>
        /\ snapshot.temperature = JNull <=> ParsedData.tem \in {JMissing, JNull}
        /\ ParsedData.tem.t = "int" =>
                /\ snapshot.temperature.t = "float"
                /\ snapshot.temperature.v % 10 = 0
                /\ Abs(snapshot.temperature.v - ParsedData.tem.v) <= 5
                /\ ParsedData.tem.v = 0 => snapshot.temperature.v = 0

C16_Witness ==
    /\ Extracted
    /\ snapshot.exc = ""
    /\ ParsedData.tem = JInt(0)
    /\ snapshot.temperature = Float(0)

(* C17: when instances built with different credentials run on the same     *)
(* configuration directory, every bearer token an instance sends was issued *)
(* by a login made with that instance's own credentials; a call of a new    *)
(* instance (validate_input) returns only after such a login was accepted.  *)
C17_CredentialIsolation ==
    Polled =>
        /\ \A i \in DOMAIN last.reqs :
              last.reqs[i] # None => owner[last.reqs[i].id] = email
        /\ (last.before = None /\ last.outcome = "returned" /\ token # None) =>
              owner[token.id] = email

\* The instance and the cache file agreed when the call began
CoherentBefore == last.before = None \/ last.fileBefore = Record(last.before)

(* C18: for one instance whose file writes succeed, a get_devices() call    *)
(* keeps the cache coherent: if the in-memory token is present afterwards,  *)
(* the file holds one record and its token is the in-memory token; every    *)
(* successful login of the call overwrote the record with the token issued. *)
C18_CacheCoherent ==
    (Polled /\ writable /\ CoherentBefore) =>
        /\ token # None => file = Record(token)
        /\ Count(last.ev, "login") >= 1 =>
              /\ file.kind = "record"
              /\ file.token.id = nextId - 1
              /\ token \in {None, file.token}

C18_Witness ==
    /\ Polled
    /\ writable
    /\ last.before # None
    /\ last.fileBefore = Record(last.before)
    /\ Count(last.ev, "login") >= 1
    /\ token # None
    /\ token # last.before
    /\ file = Record(token)

(* C19: the bearer token of every list-devices request is unexpired: a      *)
(* token whose expiry passes while it is held in memory across poll cycles  *)
(* is treated as absent and replaced before the next request is sent.       *)
C19_HeldTokenUnexpiredWhenSent ==
    (Polled /\ last.before # None /\ last.reqs # <<>>) =>
        (last.reqs[1] = last.before => (last.before.exp = NoExp \/ last.before.exp >= now))

====
